---- MODULE Spec2Model ----
(***************************************************************************)
(* Model of src/app.py: the Document Reader (extract_text_and_tables), the *)
(* Prompt Builder (create_prompt), the Extraction Client (query_gemini),   *)
(* the Response Parser (parse_json_response) and the page script that      *)
(* drives them (temporary files, submit handler, table display loop).      *)
(*                                                                         *)
(* A Python str is a sequence of tokens (TLA+ strings).  Structural        *)
(* characters (newline, quote, braces, backtick ...) are single tokens;    *)
(* runs of ordinary characters are one token each.  An Optional value is   *)
(* the record [some, v]; None is [some |-> FALSE].                         *)
(***************************************************************************)
EXTENDS Integers, Sequences, FiniteSets, TLC

VARIABLES
    \* ---- extract_text_and_tables (Document Reader) ----
    pdf,          \* the opened document: the sequence pdf.pages
    pageIdx,      \* number of loop iterations of `for i, page` completed
    full_text,    \* local full_text
    all_tables,   \* local all_tables
    rpc,          \* position in the function: "idle" | "open" | "loop" | "done"
    \* ---- parse_json_response (Response Parser) ----
    result,       \* the argument: the raw text of the model's answer
    cleaned,      \* local cleaned
    pret,         \* the value returned
    perrors,      \* st.error messages issued by the function
    pshown,       \* st.text contents issued by the function
    ppc,          \* "idle" | "start" | "decode" | "done"
    \* ---- create_prompt (Prompt Builder) ----
    text_content, \* the argument
    prompt,       \* the string returned
    bpc,          \* "idle" | "start" | "done"
    \* ---- the table display loop of the page script ----
    shown_tables, \* all_tables_combined, as the loop receives it
    didx,         \* number of iterations of `for i, table` completed
    display,      \* what the loop has put on the page, one record per table shown
    dpc,          \* "idle" | "loop" | "done"
    \* ---- the page script, one run per interaction ----
    api_key,        \* API_KEY: whether a key was entered
    uploaded_files, \* uploaded_files
    fidx,           \* number of uploads the `for file` loop has finished
    tmp_path,       \* pdf_path of the upload being processed (0: none)
    tmp_live,       \* the temporary files that exist on disk
    tmp_made,       \* how many temporary files were ever created
    all_text,       \* all_text
    all_tables_combined,
    user_prompt,    \* the prompt in the text area (None until it is built)
    pressed,        \* the button was pressed in this run
    requests_sent,  \* POST requests sent in this run
    qresult,        \* the value query_gemini returned
    final_json,     \* the value parse_json_response returned
    errors,         \* st.error messages of this run, in order
    rendered,       \* st.json was called with the result
    download,       \* file name of the download button ("" when there is none)
    page_tables,    \* what the display loop has shown
    runs,           \* script runs started
    apc             \* position in the script

readerVars == <<pdf, pageIdx, full_text, all_tables, rpc>>
parserVars == <<result, cleaned, pret, perrors, pshown, ppc>>
promptVars == <<text_content, prompt, bpc>>
displayVars == <<shown_tables, didx, display, dpc>>
uploadVars == <<api_key, uploaded_files, fidx, tmp_path, tmp_live, tmp_made,
                all_text, all_tables_combined, user_prompt>>
submitVars == <<pressed, requests_sent, qresult, final_json, errors, rendered, download>>
appVars == <<uploadVars, submitVars, page_tables, runs, apc>>
vars == <<readerVars, parserVars, promptVars, displayVars, appVars>>
nonReaderVars == <<parserVars, promptVars, displayVars, appVars>>
nonParserVars == <<readerVars, promptVars, displayVars, appVars>>
nonPromptVars == <<readerVars, parserVars, displayVars, appVars>>
nonDisplayVars == <<readerVars, parserVars, promptVars, appVars>>
nonAppVars == <<readerVars, parserVars, promptVars, displayVars>>

\* the variables of a component that a specification does not exercise
ParserIdle ==
    /\ result = <<>>
    /\ cleaned = <<>>
    /\ pret = [kind |-> "None", val |-> <<>>]
    /\ perrors = <<>>
    /\ pshown = <<>>
    /\ ppc = "idle"

PromptIdle ==
    /\ text_content = <<>>
    /\ prompt = <<>>
    /\ bpc = "idle"

DisplayIdle ==
    /\ shown_tables = <<>>
    /\ didx = 0
    /\ display = <<>>
    /\ dpc = "idle"

AppIdle ==
    /\ api_key = FALSE
    /\ uploaded_files = <<>>
    /\ fidx = 0
    /\ tmp_path = 0
    /\ tmp_live = {}
    /\ tmp_made = 0
    /\ all_text = <<>>
    /\ all_tables_combined = <<>>
    /\ user_prompt = [some |-> FALSE, v |-> <<>>]
    /\ pressed = FALSE
    /\ requests_sent = 0
    /\ qresult = [some |-> FALSE, v |-> <<>>]
    /\ final_json = [kind |-> "None", val |-> <<>>]
    /\ errors = <<>>
    /\ rendered = FALSE
    /\ download = ""
    /\ page_tables = <<>>
    /\ runs = 0
    /\ apc = "idle"

----------------------------------------------------------------------------
(* Python values *)

NL == "\n"

None == [some |-> FALSE, v |-> <<>>]
Some(s) == [some |-> TRUE, v |-> s]

\* truth value of an Optional[str]: None and "" are falsy
Truthy(o) == o.some /\ o.v # <<>>

Digits == <<"0", "1", "2", "3", "4", "5", "6", "7", "8", "9">>

\* str(n) as done by an f-string for a non-negative int
RECURSIVE IntToStr(_)
IntToStr(n) ==
    IF n < 10 THEN <<Digits[n + 1]>>
    ELSE IntToStr(n \div 10) \o <<Digits[(n % 10) + 1]>>

\* sep.join(parts)
RECURSIVE Join(_, _)
Join(sep, parts) ==
    IF Len(parts) = 0 THEN <<>>
    ELSE IF Len(parts) = 1 THEN parts[1]
    ELSE parts[1] \o sep \o Join(sep, Tail(parts))

\* concatenation of a sequence of strings
RECURSIVE Concat(_)
Concat(parts) ==
    IF Len(parts) = 0 THEN <<>> ELSE parts[1] \o Concat(Tail(parts))

----------------------------------------------------------------------------
(* extract_text_and_tables, src/app.py:18-33 *)

\* the placeholder forgotten: a page without text leaves its section blank
PageTextSection_NoPlaceholder(i, text) ==
    <<NL, "--- Page ">> \o IntToStr(i + 1) \o <<" Text ---", NL>>
        \o (IF text.some THEN text.v ELSE <<>>)

\* line 24: the text appended for page index i (0-based, as enumerate gives)
PageTextSection(i, text) ==
    <<NL, "--- Page ">> \o IntToStr(i + 1) \o <<" Text ---", NL>>
        \o (IF Truthy(text) THEN text.v ELSE <<"[No text found]">>)

\* line 28: header of table t_index (0-based) of page index i
TableHeader(i, t_index) ==
    <<NL, "--- Page ">> \o IntToStr(i + 1) \o <<" Table ">>
        \o IntToStr(t_index + 1) \o <<" ---", NL>>

\* the fallback forgotten: an absent cell is formatted as 'None'
RowText_NoFallback(row) ==
    Join(<<" | ">>, [k \in 1..Len(row) |-> IF row[k].some THEN row[k].v ELSE <<"None">>])

\* line 30: " | ".join(cell if cell else "" for cell in row)
RowText(row) ==
    Join(<<" | ">>, [k \in 1..Len(row) |-> IF Truthy(row[k]) THEN row[k].v ELSE <<>>])

\* lines 28-31: header, then every row followed by a newline
TableSection(i, t_index, table) ==
    TableHeader(i, t_index)
        \o Concat([r \in 1..Len(table) |-> RowText(table[r]) \o <<NL>>])

\* lines 26-32: `if tables:` then one section per table, in enumerate order
TablesSections(i, tables) ==
    IF Len(tables) = 0 THEN <<>>
    ELSE Concat([t \in 1..Len(tables) |-> TableSection(i, t - 1, tables[t])])

\* lines 23-32: everything one loop iteration appends to full_text
PageOutput(i, page) ==
    PageTextSection(i, page.text) \o TablesSections(i, page.tables)

\* the whole function on a readable document: (full_text, all_tables)
RECURSIVE ExtractFrom(_, _)
ExtractFrom(pages, i) ==
    IF i >= Len(pages) THEN [text |-> <<>>, tables |-> <<>>]
    ELSE LET rest == ExtractFrom(pages, i + 1)
         IN [text   |-> PageOutput(i, pages[i + 1]) \o rest.text,
             tables |-> pages[i + 1].tables \o rest.tables]

extract_text_and_tables(pages) == ExtractFrom(pages, 0)

----------------------------------------------------------------------------
(* Documents the reader is run on *)

MaxPages == 2

\* page.extract_text(): None, "" or text (possibly of several lines)
TextSamples ==
    { None, Some(<<>>), Some(<<"Rating: Buy,", NL, "CMP: 100, TP: 150">>) }

\* a table is a sequence of rows, a row a sequence of Optional[str] cells
TableSamples ==
    { << <<Some(<<"Revenue">>), None, Some(<<>>)>>, <<Some(<<"FY24E">>), Some(<<"12.5">>)>> >>,
      << <<>>, <<None>> >>,
      << <<Some(<<"Net", NL, "Sales">>), Some(<<"3.1">>)>> >> }

\* page.extract_tables(): no table, one table, or two tables
TableLists ==
    {<<>>} \cup {<<a>> : a \in TableSamples}
           \cup {<<a, b>> : a \in TableSamples, b \in TableSamples}

PageSet == [text : TextSamples, tables : TableLists]

SeqsUpTo(S, n) == UNION {[1..k -> S] : k \in 0..n}

PdfSet == SeqsUpTo(PageSet, MaxPages)

ReaderIdle ==
    /\ pdf = <<>>
    /\ pageIdx = 0
    /\ full_text = <<>>
    /\ all_tables = <<>>
    /\ rpc = "idle"

ReaderInit ==
    /\ pdf \in PdfSet
    /\ pageIdx = 0
    /\ full_text = <<>>
    /\ all_tables = <<>>
    /\ rpc = "open"

\* lines 19-21: initialise the accumulators and open the document
OpenPdf ==
    /\ rpc = "open"
    /\ full_text' = <<>>
    /\ all_tables' = <<>>
    /\ pageIdx' = 0
    /\ rpc' = "loop"
    /\ UNCHANGED <<pdf, nonReaderVars>>

\* lines 22-32: one iteration of `for i, page in enumerate(pdf.pages)`
ExtractPage ==
    /\ rpc = "loop"
    /\ pageIdx < Len(pdf)
    /\ LET page == pdf[pageIdx + 1]
       IN /\ full_text' = full_text \o PageOutput(pageIdx, page)
          /\ all_tables' = all_tables \o page.tables
    /\ pageIdx' = pageIdx + 1
    /\ UNCHANGED <<pdf, rpc, nonReaderVars>>

\* line 33: return full_text, all_tables
ReturnResult ==
    /\ rpc = "loop"
    /\ pageIdx = Len(pdf)
    /\ rpc' = "done"
    /\ UNCHANGED <<pdf, pageIdx, full_text, all_tables, nonReaderVars>>

ReaderNext == OpenPdf \/ ExtractPage \/ ReturnResult

InitReader == ReaderInit /\ ParserIdle /\ PromptIdle /\ DisplayIdle /\ AppIdle

SpecReader == InitReader /\ [][ReaderNext]_vars

----------------------------------------------------------------------------
(* Reading the flattened text back: lines, section headers, section bodies *)

\* s.split(sep) for a one-token separator
RECURSIVE Split(_, _)
Split(s, sep) ==
    IF \A k \in 1..Len(s) : s[k] # sep THEN <<s>>
    ELSE LET k == CHOOSE j \in 1..Len(s) :
                      s[j] = sep /\ \A h \in 1..(j - 1) : s[h] # sep
         IN <<SubSeq(s, 1, k - 1)>> \o Split(SubSeq(s, k + 1, Len(s)), sep)

IsDigit(c) == \E d \in 1..10 : Digits[d] = c
DigitVal(c) == (CHOOSE d \in 1..10 : Digits[d] = c) - 1

\* int(digits)
RECURSIVE StrToInt(_)
StrToInt(ds) ==
    IF Len(ds) = 0 THEN 0
    ELSE 10 * StrToInt(SubSeq(ds, 1, Len(ds) - 1)) + DigitVal(ds[Len(ds)])

AllDigits(ds) == Len(ds) > 0 /\ \A k \in 1..Len(ds) : IsDigit(ds[k])

\* a line of the form '--- Page <n> Text ---'
IsPageHeaderLine(l) ==
    /\ Len(l) >= 3
    /\ l[1] = "--- Page "
    /\ l[Len(l)] = " Text ---"
    /\ AllDigits(SubSeq(l, 2, Len(l) - 1))

PageHeaderNo(l) == StrToInt(SubSeq(l, 2, Len(l) - 1))

\* a line of the form '--- Page <n> Table <m> ---'
IsTableHeaderLine(l) ==
    /\ Len(l) >= 5
    /\ l[1] = "--- Page "
    /\ l[Len(l)] = " ---"
    /\ \E k \in 3..(Len(l) - 2) :
          /\ l[k] = " Table "
          /\ AllDigits(SubSeq(l, 2, k - 1))
          /\ AllDigits(SubSeq(l, k + 1, Len(l) - 1))

TableMark(l) == CHOOSE k \in 3..(Len(l) - 2) : l[k] = " Table "
TableHeaderPage(l) == StrToInt(SubSeq(l, 2, TableMark(l) - 1))
TableHeaderNo(l) == StrToInt(SubSeq(l, TableMark(l) + 1, Len(l) - 1))

PageHeaderPos(lines) == {k \in 1..Len(lines) : IsPageHeaderLine(lines[k])}
TableHeaderPos(lines) == {k \in 1..Len(lines) : IsTableHeaderLine(lines[k])}

\* the n-th smallest element of a set of positions
Nth(S, n) == CHOOSE p \in S : Cardinality({q \in S : q <= p}) = n

\* the lines of the section whose header is at position k: up to the next
\* header (heads: the positions of all headers) or the end of the text
SectionLines(lines, heads, k) ==
    LET later == {h \in heads : h > k}
        last == IF later = {} THEN Len(lines)
                ELSE (CHOOSE h \in later : \A g \in later : h <= g) - 1
    IN SubSeq(lines, k + 1, last)

\* C1: when extract_text_and_tables returns for a document of N pages, the
\* flattened text holds exactly N page-text sections, the i-th headed
\* '--- Page i Text ---', in ascending order, and the body of the i-th is the
\* page's text when the page yields text and '[No text found]' otherwise --
\* never blank.
C1_PageSections ==
    rpc = "done" =>
        LET lines == Split(full_text, NL)
            pages == PageHeaderPos(lines)
            heads == pages \cup TableHeaderPos(lines)
        IN /\ Cardinality(pages) = Len(pdf)
           /\ \A i \in 1..Len(pdf) :
                 LET k == Nth(pages, i)
                     body == Join(<<NL>>, SectionLines(lines, heads, k))
                 IN /\ PageHeaderNo(lines[k]) = i
                    /\ body # <<>>
                    /\ body = IF pdf[i].text.some /\ pdf[i].text.v # <<>>
                              THEN pdf[i].text.v
                              ELSE <<"[No text found]">>

\* a two-page document returned, one page without text, one with empty text
C1_Witness ==
    /\ rpc = "done"
    /\ Len(pdf) = 2
    /\ ~pdf[1].text.some
    /\ pdf[2].text.some /\ pdf[2].text.v = <<>>
    /\ Len(pdf[1].tables) = 2

\* the cells of a row as the claim renders them: a missing cell is ''
RenderedCells(row) ==
    IF Len(row) = 0 THEN << <<>> >>
    ELSE [c \in 1..Len(row) |->
            IF row[c].some /\ row[c].v # <<>> THEN row[c].v ELSE <<>>]

\* C2 as stated: when extract_text_and_tables returns, every page p with K detected
\* tables has exactly K table sections headed '--- Page p Table 1 ---' ..
\* '--- Page p Table K ---' in detection order, all after page p's text
\* section and before page p+1's; in a section every row is one line, in row
\* order, the row's cells joined by ' | ' with missing cells rendered as ''.
C2_TableSections ==
    rpc = "done" =>
        LET lines == Split(full_text, NL)
            pages == PageHeaderPos(lines)
            tabs == TableHeaderPos(lines)
            heads == pages \cup tabs
        IN \A p \in 1..Len(pdf) :
              LET mine == {k \in tabs : TableHeaderPage(lines[k]) = p}
                  K == Len(pdf[p].tables)
              IN /\ Cardinality(mine) = K
                 /\ \A j \in 1..K :
                       LET k == Nth(mine, j)
                           table == pdf[p].tables[j]
                           body == SectionLines(lines, heads, k)
                       IN /\ TableHeaderNo(lines[k]) = j
                          /\ k > Nth(pages, p)
                          /\ p < Len(pdf) => k < Nth(pages, p + 1)
                          /\ Len(body) = Len(table) + 1
                          /\ body[Len(body)] = <<>>
                          /\ \A r \in 1..Len(table) :
                                Split(body[r], " | ") = RenderedCells(table[r])

\* the cells of a row with every missing cell replaced by ''
CellsOrEmpty(row) ==
    [c \in 1..Len(row) |-> IF row[c].some /\ row[c].v # <<>> THEN row[c].v ELSE <<>>]

\* C2 as amended: as C2, except that the content of a table section is, for
\* every row in row order, the row's cells joined by ' | ' (missing cells
\* rendered as '') followed by a newline; a row is a single line only when
\* none of its cells holds a newline.
C2_TableSectionsAmended ==
    rpc = "done" =>
        LET lines == Split(full_text, NL)
            pages == PageHeaderPos(lines)
            tabs == TableHeaderPos(lines)
            heads == pages \cup tabs
        IN \A p \in 1..Len(pdf) :
              LET mine == {k \in tabs : TableHeaderPage(lines[k]) = p}
                  K == Len(pdf[p].tables)
              IN /\ Cardinality(mine) = K
                 /\ \A j \in 1..K :
                       LET k == Nth(mine, j)
                           table == pdf[p].tables[j]
                           body == SectionLines(lines, heads, k)
                       IN /\ TableHeaderNo(lines[k]) = j
                          /\ k > Nth(pages, p)
                          /\ p < Len(pdf) => k < Nth(pages, p + 1)
                          /\ Join(<<NL>>, body) =
                                Concat([r \in 1..Len(table) |->
                                    Join(<<" | ">>, CellsOrEmpty(table[r])) \o <<NL>>])

HasCell(table, cell) ==
    \E r \in 1..Len(table) : \E c \in 1..Len(table[r]) : table[r][c] = cell

\* a returned document whose first page has two tables, the first with an
\* absent and an empty cell, the second with a cell of two lines
C2_Witness ==
    /\ rpc = "done"
    /\ Len(pdf) = 2
    /\ Len(pdf[1].tables) = 2
    /\ HasCell(pdf[1].tables[1], None)
    /\ HasCell(pdf[1].tables[1], Some(<<>>))
    /\ HasCell(pdf[1].tables[2], Some(<<"Net", NL, "Sales">>))
    /\ Len(pdf[2].tables) = 1

----------------------------------------------------------------------------
(* json.dumps and json.loads on token strings.  A decoded value is the      *)
(* record [kind, val]: kind "object" (val a function from key to value),    *)
(* "array" (val a sequence), "string", "number", "bool", and "None" for     *)
(* JSON null, which Python decodes to None.                                 *)

QUOTE == "\""
BSLASH == "\\"
\* the backtick character (written out: the character cannot stand in a string here)
TICK == "BACKTICK"

PyNone == [kind |-> "None", val |-> <<>>]
JString(x) == [kind |-> "string", val |-> x]
JObject(f) == [kind |-> "object", val |-> f]

IsWs(c) == c \in {" ", NL}

\* json.dumps of a str: quoted, with quote, backslash and newline escaped
EscapeTok(c) ==
    IF c = QUOTE THEN <<BSLASH, QUOTE>>
    ELSE IF c = BSLASH THEN <<BSLASH, BSLASH>>
    ELSE IF c = NL THEN <<BSLASH, "n">>
    ELSE <<c>>

DumpsStr(x) ==
    <<QUOTE>> \o Concat([k \in 1..Len(x) |-> EscapeTok(x[k])]) \o <<QUOTE>>

\* json.dumps of a dict of str to str, given as its items in insertion order
json_dumps(items) ==
    <<"{">>
      \o Join(<<",", " ">>,
              [k \in 1..Len(items) |->
                  DumpsStr(items[k][1]) \o <<":", " ">> \o DumpsStr(items[k][2])])
      \o <<"}">>

\* the dict built from the items: a later item overrides an earlier one
DictOf(items) ==
    [key \in {items[k][1] : k \in 1..Len(items)} |->
        LET last == CHOOSE k \in 1..Len(items) :
                        /\ items[k][1] = key
                        /\ \A h \in (k + 1)..Len(items) : items[h][1] # key
        IN JString(items[last][2])]

\* first position >= i that holds no whitespace (Len(s) + 1 when there is none)
RECURSIVE SkipWs(_, _)
SkipWs(s, i) ==
    IF i <= Len(s) /\ IsWs(s[i]) THEN SkipWs(s, i + 1) ELSE i

Fail == [ok |-> FALSE, val |-> PyNone, pos |-> 0]
Good(v, p) == [ok |-> TRUE, val |-> v, pos |-> p]

\* the rest of a string literal, from position j (after the opening quote)
RECURSIVE ScanString(_, _, _)
ScanString(s, j, acc) ==
    IF j > Len(s) THEN Fail
    ELSE IF s[j] = QUOTE THEN Good(JString(acc), j + 1)
    ELSE IF s[j] = NL THEN Fail                      \* raw control character
    ELSE IF s[j] = BSLASH THEN
        IF j + 1 > Len(s) THEN Fail
        ELSE IF s[j + 1] \in {QUOTE, BSLASH, "/"}
             THEN ScanString(s, j + 2, Append(acc, s[j + 1]))
        ELSE IF s[j + 1] = "n" THEN ScanString(s, j + 2, Append(acc, NL))
        ELSE Fail
    ELSE ScanString(s, j + 1, Append(acc, s[j]))

\* the end of the run of digits that starts at j
RECURSIVE DigitsEnd(_, _)
DigitsEnd(s, j) ==
    IF j <= Len(s) /\ IsDigit(s[j]) THEN DigitsEnd(s, j + 1) ELSE j

RECURSIVE ParseValue(_, _)
RECURSIVE ParseMembers(_, _, _)
RECURSIVE ParseItems(_, _, _)

\* members of an object from position j, which holds the quote of a key
ParseMembers(s, j, acc) ==
    IF j > Len(s) \/ s[j] # QUOTE THEN Fail
    ELSE LET key == ScanString(s, j + 1, <<>>)
         IN IF ~key.ok THEN Fail
            ELSE LET c == SkipWs(s, key.pos)
                 IN IF c > Len(s) \/ s[c] # ":" THEN Fail
                    ELSE LET v == ParseValue(s, SkipWs(s, c + 1))
                         IN IF ~v.ok THEN Fail
                            ELSE LET e == SkipWs(s, v.pos)
                                     now == [k \in DOMAIN acc \cup {key.val.val} |->
                                                IF k = key.val.val THEN v.val ELSE acc[k]]
                                 IN IF e > Len(s) THEN Fail
                                    ELSE IF s[e] = "}" THEN Good(JObject(now), e + 1)
                                    ELSE IF s[e] = "," THEN ParseMembers(s, SkipWs(s, e + 1), now)
                                    ELSE Fail

\* items of an array from position j, which holds the start of a value
ParseItems(s, j, acc) ==
    LET v == ParseValue(s, j)
    IN IF ~v.ok THEN Fail
       ELSE LET e == SkipWs(s, v.pos)
                now == Append(acc, v.val)
            IN IF e > Len(s) THEN Fail
               ELSE IF s[e] = "]" THEN Good([kind |-> "array", val |-> now], e + 1)
               ELSE IF s[e] = "," THEN ParseItems(s, SkipWs(s, e + 1), now)
               ELSE Fail

\* JSONDecoder.raw_decode at position i
ParseValue(s, i) ==
    IF i > Len(s) THEN Fail
    ELSE IF s[i] = QUOTE THEN ScanString(s, i + 1, <<>>)
    ELSE IF s[i] = "{" THEN
        LET j == SkipWs(s, i + 1)
        IN IF j <= Len(s) /\ s[j] = "}" THEN Good(JObject(<<>>), j + 1)
           ELSE ParseMembers(s, j, <<>>)
    ELSE IF s[i] = "[" THEN
        LET j == SkipWs(s, i + 1)
        IN IF j <= Len(s) /\ s[j] = "]" THEN Good([kind |-> "array", val |-> <<>>], j + 1)
           ELSE ParseItems(s, j, <<>>)
    ELSE IF s[i] = "null" THEN Good(PyNone, i + 1)
    ELSE IF s[i] \in {"true", "false"} THEN Good([kind |-> "bool", val |-> s[i] = "true"], i + 1)
    ELSE IF IsDigit(s[i]) THEN
        LET e == IF s[i] = "0" THEN i + 1 ELSE DigitsEnd(s, i)
        IN Good([kind |-> "number", val |-> StrToInt(SubSeq(s, i, e - 1))], e)
    ELSE Fail

\* json.loads: one value, surrounded by optional whitespace, and nothing else;
\* anything else raises JSONDecodeError (ok = FALSE)
json_loads(s) ==
    LET v == ParseValue(s, SkipWs(s, 1))
    IN IF v.ok /\ SkipWs(s, v.pos) = Len(s) + 1 THEN v ELSE Fail

----------------------------------------------------------------------------
(* parse_json_response, src/app.py:119-126 *)

StartsWithFence(s) == Len(s) >= 3 /\ s[1] = TICK /\ s[2] = TICK /\ s[3] = TICK

\* re.sub of the pattern (three backticks + json | three backticks) by "":
\* every occurrence, left to right
RECURSIVE RemoveFences(_)
RemoveFences(s) ==
    IF Len(s) = 0 THEN <<>>
    ELSE IF StartsWithFence(s) THEN
        IF Len(s) >= 4 /\ s[4] = "json"
        THEN RemoveFences(SubSeq(s, 5, Len(s)))
        ELSE RemoveFences(SubSeq(s, 4, Len(s)))
    ELSE <<s[1]>> \o RemoveFences(Tail(s))

\* str.strip()
RECURSIVE Strip(_)
Strip(s) ==
    IF Len(s) = 0 THEN s
    ELSE IF IsWs(s[1]) THEN Strip(Tail(s))
    ELSE IF IsWs(s[Len(s)]) THEN Strip(SubSeq(s, 1, Len(s) - 1))
    ELSE s

\* line 120
Clean(raw) == Strip(RemoveFences(raw))

\* lines 121-126 as a function: the value returned and what is reported
ParseOutcome(raw) ==
    LET d == json_loads(Clean(raw))
    IN IF d.ok
       THEN [ret |-> d.val, errors |-> <<>>, shown |-> <<>>]
       ELSE [ret |-> PyNone, errors |-> <<"JSON parse error">>, shown |-> <<raw>>]

\* Python truth value of a decoded value
TruthyValue(v) ==
    CASE v.kind = "None" -> FALSE
      [] v.kind = "object" -> DOMAIN v.val # {}
      [] v.kind = "array" -> Len(v.val) > 0
      [] v.kind = "string" -> Len(v.val) > 0
      [] v.kind = "number" -> v.val # 0
      [] OTHER -> v.val

----------------------------------------------------------------------------
(* Raw responses the parser is run on *)

FieldValues ==
    { <<>>, <<"Hold">>, <<TICK, TICK, TICK>>,
      <<TICK, TICK, TICK, "json", NL, "x">>, <<"say ", QUOTE, "hi", QUOTE>> }

\* mappings of string fields, as item lists in insertion order
Mappings ==
    {<<>>} \cup {<< <<k, v>> >> : k \in {<<"rating">>, <<"comments">>}, v \in FieldValues}
           \cup {<< <<<<"rating">>, v>>, <<<<"comments">>, w>> >> :
                    v \in FieldValues, w \in FieldValues}

Fence == <<TICK, TICK, TICK>>

\* an answer as the model may wrap it: bare, fenced, fenced with a language tag
Wrappings(body) ==
    { body,
      <<" ">> \o body \o <<NL>>,
      Fence \o <<NL>> \o body \o <<NL>> \o Fence,
      Fence \o <<"json", NL>> \o body \o <<NL>> \o Fence,
      Fence \o <<"python", NL>> \o body \o <<NL>> \o Fence }

OtherResponses ==
    { <<"not json">>, <<"[", "1", "]">>, <<"[", "]">>, <<"null">>, <<"5">>, <<"0">>,
      <<QUOTE, "Hold", QUOTE>>, <<"{", QUOTE, "rating", QUOTE, ":", "5", "}">>,
      <<"{", QUOTE, "rating", QUOTE, ":", QUOTE, "Hold", QUOTE, "}", " ", "x">>,
      <<"{", QUOTE, "rating", QUOTE, ":", QUOTE, "Hold", "}">>,
      <<"Here is the JSON:", NL>> \o Fence \o <<"json", NL, "{", "}", NL>> \o Fence }

RawResponses ==
    UNION {Wrappings(json_dumps(m)) : m \in Mappings}
        \cup UNION {Wrappings(r) : r \in OtherResponses}

ParserInit ==
    /\ result \in RawResponses \ {<<>>}
    /\ cleaned = <<>>
    /\ pret = PyNone
    /\ perrors = <<>>
    /\ pshown = <<>>
    /\ ppc = "start"

\* line 120: cleaned = re.sub(...).strip()
StripFences ==
    /\ ppc = "start"
    /\ cleaned' = Clean(result)
    /\ ppc' = "decode"
    /\ UNCHANGED <<result, pret, perrors, pshown, nonParserVars>>

\* lines 121-122: json.loads succeeds and its value is returned
DecodeOk ==
    /\ ppc = "decode"
    /\ json_loads(cleaned).ok
    /\ pret' = json_loads(cleaned).val
    /\ ppc' = "done"
    /\ UNCHANGED <<result, cleaned, perrors, pshown, nonParserVars>>

\* lines 123-126: JSONDecodeError: report it, show the raw text, return None
DecodeError ==
    /\ ppc = "decode"
    /\ ~json_loads(cleaned).ok
    /\ perrors' = Append(perrors, "JSON parse error")
    /\ pshown' = Append(pshown, result)
    /\ pret' = PyNone
    /\ ppc' = "done"
    /\ UNCHANGED <<result, cleaned, nonParserVars>>

ParserNext == StripFences \/ DecodeOk \/ DecodeError

InitParser == ParserInit /\ ReaderIdle /\ PromptIdle /\ DisplayIdle /\ AppIdle

SpecParser == InitParser /\ [][ParserNext]_vars

----------------------------------------------------------------------------
(* Claims on parse_json_response *)

\* C3: for every mapping m of string fields -- values holding fence characters
\* and the empty mapping included -- parse_json_response(json.dumps(m))
\* returns a mapping equal to m.
C3_RoundTrip ==
    ppc = "done" =>
        \A m \in Mappings :
            result = json_dumps(m) =>
                /\ pret.kind = "object"
                /\ DOMAIN pret.val = DOMAIN DictOf(m)
                /\ \A k \in DOMAIN pret.val : pret.val[k] = DictOf(m)[k]

LanguageTags == {"json", "python"}

EndsWithFence(s) ==
    Len(s) >= 3 /\ s[Len(s)] = TICK /\ s[Len(s) - 1] = TICK /\ s[Len(s) - 2] = TICK

\* the text with one pair of fence markers removed: the marker at the very
\* start, with its language tag if it has one, and the marker at the very end
OnePairRemoved(r) ==
    LET a == IF ~StartsWithFence(r) THEN r
             ELSE IF Len(r) >= 4 /\ r[4] \in LanguageTags THEN SubSeq(r, 5, Len(r))
             ELSE SubSeq(r, 4, Len(r))
    IN IF EndsWithFence(a) THEN SubSeq(a, 1, Len(a) - 3) ELSE a

\* C4: parse_json_response removes exactly one pair of fence markers, the one
\* at the very start (whatever its language tag) and the one at the very end;
\* markers elsewhere stay in place, and the text between the stripped pair is
\* what is decoded.
C4_OnePairStripped ==
    ppc \in {"decode", "done"} => cleaned = Strip(OnePairRemoved(result))

\* C5: parse_json_response ends in exactly one of two ways: it returns a
\* decoded JSON object, or it reports an error, shows the raw text and returns
\* the failure value; a text that is not a JSON object after fence stripping
\* always ends the second way.
C5_ObjectOrError ==
    ppc = "done" =>
        LET returned == pret.kind = "object" /\ perrors = <<>> /\ pshown = <<>>
            failed == pret = PyNone /\ Len(perrors) = 1 /\ pshown = <<result>>
            d == json_loads(cleaned)
        IN /\ returned \/ failed
           /\ ~(d.ok /\ d.val.kind = "object") => failed

----------------------------------------------------------------------------
(* create_prompt, src/app.py:35-101.  Every line of the template is one    *)
(* token followed by a newline, except the lines of the field schema,      *)
(* which are spelled out; the arrows of lines 77-87 are written '->'.      *)

\* lines 36-40: the text before the field schema (the literal opens with a newline)
PromptHead ==
    <<NL,
       "You are a financial data extractor.", NL,
       NL,
       "From the content below, extract and return this JSON object:", NL,
       NL>>

\* lines 42-67: the fields of the schema, in template order
SchemaFields ==
    <<"reviewer", "reviewee", "analyst", "analystMail",
       "analystPhone", "rating", "current_price", "target_price",
       "previous_target", "comments", "revenueFY24E", "ebitdaFY24E",
       "ebitdaMarginFY24E", "patFY24E", "revenueFY25E", "ebitdaFY25E",
       "ebitdaMarginFY25E", "patFY25E", "revenue3QFY24", "ebitda3QFY24",
       "ebitda3QFY24yoy", "ebitda3QFY24qoq", "ebitdaMargin3QFY24", "pat3QFY24",
       "pat3QFY24yoy", "pat3QFY24qoq">>

\* one line of the schema: '  "<name>": "",' (no comma after the last one)
SchemaLine(k) ==
    <<"  ", QUOTE, SchemaFields[k], QUOTE, ":", " ", QUOTE, QUOTE>>
        \o (IF k < Len(SchemaFields) THEN <<",">> ELSE <<>>) \o <<NL>>

\* lines 41-68: '{', the schema lines, '}'
SchemaBlock ==
    <<"{", NL>> \o Concat([k \in 1..Len(SchemaFields) |-> SchemaLine(k)]) \o <<"}", NL>>

\* lines 69-97: the extraction rules
PromptRules ==
    <<NL,
       "Accept label variations such as:", NL,
       "- Give the name of the company that has produced or written this review under the key \"reviewer\"", NL,
       "- Give the name of the company about which this report is written about under the key \"reviewee\"", NL,
       "- Give the full name of the analyst that written the report under the key \"analyst\". In case of multiple analysts, give only the first person.", NL,
       "- Give the email of the analyst under the key \"analystMail\". Include all special characters.", NL,
       "- Give the phone number of the analyst under the key \"analystPhone\". Include '+' and space in place of '-'.", NL,
       "- Extract stock rating terms like: buy, sell, hold, add, reduce, overweight, neutral under \"rating\"", NL,
       "- \"CMP\",\"Price Now\",\"Current Market Price\" -> current_price", NL,
       "- \"TP\",\"Target\",\"Target Price\" -> target_price", NL,
       "- \"Previous TP\",\"PT\" -> previous_target", NL,
       "- If \"Retain/maintain rating\" -> comments = \"Maintain Rating\". If changed, write as \"Rating changged to (new rating)\"", NL,
       NL,
       "Look for revenue/EBITDA/PAT values in tables with rows like:", NL,
       "- Revenue, Sales -> revenueFY24E, revenueFY25E, revenue3QFY24", NL,
       "- EBITDA -> ebitdaFY24E, ebitdaFY25E, ebitda3QFY24", NL,
       "- PAT, Profit after tax -> patFY24E, patFY25E, pat3QFY24", NL,
       "- EBITDA margin, EBITDS margin % -> ebitdaMarginFY24E, etc.", NL,
       "- YoY/QoQ fields -> like \"EBITDA YoY\", \"PAT QoQ\"", NL,
       NL,
       "Clean all values:", NL,
       "- Only keep digits, negative signs, or decimal points", NL,
       "- For example, \"-1.2 3%(7)\" -> \"-1.23\"", NL,
       NL,
       "If value is in USD, convert it to INR (1 USD = 85.71) -> then to billions", NL,
       NL,
       "Return **only a valid JSON object**. Do not explain. Do not wrap in code blocks.", NL,
       NL,
       "PDF Content:", NL>>

TRIPLEQUOTE == "\"\"\""

\* the text stripped of surrounding whitespace before it is embedded
create_prompt_Stripped(text) ==
    PromptHead \o SchemaBlock \o PromptRules
        \o <<TRIPLEQUOTE, NL>> \o Strip(text) \o <<NL, TRIPLEQUOTE, NL>>

\* lines 36-101: the f-string, with {text_content} between the triple quotes
create_prompt(text) ==
    PromptHead \o SchemaBlock \o PromptRules
        \o <<TRIPLEQUOTE, NL>> \o text \o <<NL, TRIPLEQUOTE, NL>>

MaxTextLen == 3

TextTokens == {"Rating: Buy", NL, "{", QUOTE}

PromptInit ==
    /\ text_content \in SeqsUpTo(TextTokens, MaxTextLen)
    /\ prompt = <<>>
    /\ bpc = "start"

\* line 143: default_prompt = create_prompt(all_text)
BuildPrompt ==
    /\ bpc = "start"
    /\ prompt' = create_prompt(text_content)
    /\ bpc' = "done"
    /\ UNCHANGED <<text_content, nonPromptVars>>

PromptNext == BuildPrompt

InitPrompt == PromptInit /\ ReaderIdle /\ ParserIdle /\ DisplayIdle /\ AppIdle

SpecPrompt == InitPrompt /\ [][PromptNext]_vars

\* t occurs in s as a contiguous run
IsSubstring(t, s) ==
    \E k \in 0..(Len(s) - Len(t)) : SubSeq(s, k + 1, k + Len(t)) = t

\* the lines between the first line '{' and the first line '}' after it
SchemaLinesOf(p) ==
    LET lines == Split(p, NL)
        open == CHOOSE k \in 1..Len(lines) :
                    lines[k] = <<"{">> /\ \A h \in 1..(k - 1) : lines[h] # <<"{">>
        close == CHOOSE k \in (open + 1)..Len(lines) :
                    lines[k] = <<"}">> /\ \A h \in (open + 1)..(k - 1) : lines[h] # <<"}">>
    IN SubSeq(lines, open + 1, close - 1)

\* a line that declares a field with the empty string as its default
DeclaresField(l) ==
    /\ Len(l) \in {8, 9}
    /\ SubSeq(l, 1, 2) = <<"  ", QUOTE>>
    /\ SubSeq(l, 4, 8) = <<QUOTE, ":", " ", QUOTE, QUOTE>>
    /\ Len(l) = 9 => l[9] = ","

\* the text is embedded verbatim, and the schema of the prompt declares
\* exactly n distinct fields, each with default ''
PromptHolds(n) ==
    LET decl == SchemaLinesOf(prompt)
        names == {decl[k][3] : k \in 1..Len(decl)}
    IN /\ IsSubstring(text_content, prompt)
       /\ \A k \in 1..Len(decl) : DeclaresField(decl[k])
       /\ Len(decl) = n
       /\ Cardinality(names) = n
       /\ \A name \in names : IsSubstring(<<QUOTE, name, QUOTE>>, prompt)

----------------------------------------------------------------------------
(* The table display loop, src/app.py:167-187, with the pandas operations  *)
(* it uses.  A cell of a DataFrame is NA exactly when it is None: dropna    *)
(* does not treat '' or blanks as missing.                                  *)

Max(S) == CHOOSE x \in S : \A y \in S : y <= x

\* pd.DataFrame(table): rows padded with None to the longest row
FrameOf(table) ==
    LET ncols == IF Len(table) = 0 THEN 0 ELSE Max({Len(table[r]) : r \in 1..Len(table)})
    IN [r \in 1..Len(table) |->
          [c \in 1..ncols |-> IF c <= Len(table[r]) THEN table[r][c] ELSE None]]

NCols(df) == IF Len(df) = 0 THEN 0 ELSE Len(df[1])

\* line 173: frame.dropna(how="all").dropna(axis=1, how="all").empty, for a frame given
\* by its NA mask (na[r][c]: the cell is NA): rows that are all NA go first,
\* then columns that are all NA in what is left
EmptyAfterDropna(na) ==
    LET rows == {r \in 1..Len(na) : \E c \in 1..NCols(na) : ~na[r][c]}
        cols == {c \in 1..NCols(na) : \E r \in rows : ~na[r][c]}
    IN rows = {} \/ cols = {}

\* frame.dropna(axis=1, how='all').dropna(how='all').empty: columns first
EmptyAfterDropnaColumnsFirst(na) ==
    LET cols == {c \in 1..NCols(na) : \E r \in 1..Len(na) : ~na[r][c]}
        rows == {r \in 1..Len(na) : \E c \in cols : ~na[r][c]}
    IN cols = {} \/ rows = {}

IsNone(cell) == ~cell.some

\* a str that pd.to_numeric converts: [-]digits[.digits]
IsNumberText(v) ==
    LET body == IF Len(v) > 0 /\ v[1] = "-" THEN Tail(v) ELSE v
        dots == {k \in 1..Len(body) : body[k] = "."}
    IN /\ Len(body) > 0
       /\ \A k \in 1..Len(body) : IsDigit(body[k]) \/ body[k] = "."
       /\ Cardinality(dots) <= 1
       /\ \E k \in 1..Len(body) : IsDigit(body[k])

\* NaN after df.apply(pd.to_numeric, errors='coerce')
CoercesToNaN(cell) == ~cell.some \/ ~IsNumberText(cell.v)

\* df.isna()
IsnaMask(df) == [r \in 1..Len(df) |-> [c \in 1..NCols(df) |-> IsNone(df[r][c])]]

\* df.apply(pd.to_numeric, errors='coerce').isna()
NumericIsnaMask(df) ==
    [r \in 1..Len(df) |-> [c \in 1..NCols(df) |-> CoercesToNaN(df[r][c])]]

\* what one iteration puts on the page for table index i (0-based):
\* nothing (continue), or the header and the grid, with or without the chart
DisplayOne(i, table) ==
    LET df == FrameOf(table)
    IN IF EmptyAfterDropna(IsnaMask(df)) THEN <<>>
       ELSE << [title |-> <<"Table ">> \o IntToStr(i + 1),
                grid  |-> df,
                chart |-> ~EmptyAfterDropnaColumnsFirst(NumericIsnaMask(df))] >>

MaxShown == 2

\* cells are spelled character by character here
DisplayTableSamples ==
    { << <<None, None>>, <<None>> >>,
      << <<Some(<<>>), Some(<<>>)>> >>,
      << <<Some(<<" ">>), None>> >>,
      << <<Some(<<"P", "A", "T">>), Some(<<"1", "2", ".", "5">>)>>, <<None, Some(<<"-", "3">>)>> >>,
      << <<Some(<<"B", "u", "y">>), Some(<<>>)>>, <<Some(<<"1", "0", "%">>)>> >>,
      << <<>> >> }

DisplayInit ==
    /\ shown_tables \in SeqsUpTo(DisplayTableSamples, MaxShown)
    /\ didx = 0
    /\ display = <<>>
    /\ dpc = "loop"

\* lines 172-174: the table is empty after dropna: continue
SkipTable ==
    /\ dpc = "loop"
    /\ didx < Len(shown_tables)
    /\ DisplayOne(didx, shown_tables[didx + 1]) = <<>>
    /\ didx' = didx + 1
    /\ UNCHANGED <<shown_tables, display, dpc, nonDisplayVars>>

\* lines 175-185: header, grid and, when a numeric cell is left, the chart
ShowTable ==
    /\ dpc = "loop"
    /\ didx < Len(shown_tables)
    /\ DisplayOne(didx, shown_tables[didx + 1]) # <<>>
    /\ display' = display \o DisplayOne(didx, shown_tables[didx + 1])
    /\ didx' = didx + 1
    /\ UNCHANGED <<shown_tables, dpc, nonDisplayVars>>

\* the loop is over
EndDisplay ==
    /\ dpc = "loop"
    /\ didx = Len(shown_tables)
    /\ dpc' = "done"
    /\ UNCHANGED <<shown_tables, didx, display, nonDisplayVars>>

DisplayNext == SkipTable \/ ShowTable \/ EndDisplay

InitDisplay == DisplayInit /\ ReaderIdle /\ ParserIdle /\ PromptIdle /\ AppIdle

SpecDisplay == InitDisplay /\ [][DisplayNext]_vars

Cells(table) == UNION {{table[r][c] : c \in 1..Len(table[r])} : r \in 1..Len(table)}

\* a cell that is absent, empty or only blanks
IsBlank(cell) == ~cell.some \/ \A k \in 1..Len(cell.v) : IsWs(cell.v[k])

\* the records the loop has shown for table number n (1-based)
ShownFor(n) ==
    {k \in 1..Len(display) : display[k].title = <<"Table ">> \o IntToStr(n)}

\* C9: in the table display loop, a table whose every cell is empty or absent
\* is not displayed at all; a table with a non-empty numeric cell is displayed
\* with a chart; a table with only non-numeric content is displayed without a
\* chart.
C9_DisplayRule ==
    dpc = "done" =>
        \A n \in 1..Len(shown_tables) :
            LET table == shown_tables[n]
                blank == \A cell \in Cells(table) : IsBlank(cell)
                numeric == \E cell \in Cells(table) : cell.some /\ IsNumberText(cell.v)
            IN /\ blank => ShownFor(n) = {}
               /\ numeric => \E k \in ShownFor(n) : display[k].chart
               /\ (~blank /\ ~numeric) =>
                     /\ ShownFor(n) # {}
                     /\ \A k \in ShownFor(n) : ~display[k].chart

----------------------------------------------------------------------------
(* query_gemini, src/app.py:104-117, and the page script, 129-187.  A       *)
(* script run is one top-to-bottom execution; an interaction starts a new   *)
(* run.  Files on disk outlive a run; everything else is rebuilt.           *)

MaxFiles == 2
MaxRuns == 2

\* an upload: whether pdfplumber can open and parse it, and its pages
Unreadable == [readable |-> FALSE, pages |-> <<>>]

FileSamples ==
    { Unreadable,
      [readable |-> TRUE,
       pages |-> << [text |-> Some(<<"Rating: Buy, CMP: 100, TP: 150">>), tables |-> <<>>] >>],
      [readable |-> TRUE,
       pages |-> << [text |-> None,
                     tables |-> << << <<Some(<<"P", "A", "T">>), Some(<<"1", "2">>)>>,
                                      <<Some(<<>>), None>> >> >>] >>] }

\* the text of the first part of the first candidate of a 200 answer
AnswerTexts ==
    { <<>>, <<"not json">>, <<"{", "}">>, <<"[", "1", "]">>, <<"null">>,
      json_dumps(<< <<<<"rating">>, <<"Hold">>>> >>),
      Fence \o <<"json", NL>> \o json_dumps(<< <<<<"rating">>, <<"Hold">>>> >>)
            \o <<NL>> \o Fence }

AppInit ==
    /\ api_key \in BOOLEAN
    /\ uploaded_files \in SeqsUpTo(FileSamples, MaxFiles)
    /\ fidx = 0
    /\ tmp_path = 0
    /\ tmp_live = {}
    /\ tmp_made = 0
    /\ all_text = <<>>
    /\ all_tables_combined = <<>>
    /\ user_prompt = None
    /\ pressed = FALSE
    /\ requests_sent = 0
    /\ qresult = None
    /\ final_json = PyNone
    /\ errors = <<>>
    /\ rendered = FALSE
    /\ download = ""
    /\ page_tables = <<>>
    /\ runs = 1
    /\ apc = "start"

\* line 129: no upload or no key: the script does nothing more
SkipProcessing ==
    /\ apc = "start"
    /\ ~(Len(uploaded_files) > 0 /\ api_key)
    /\ apc' = "done"
    /\ UNCHANGED <<uploadVars, submitVars, page_tables, runs, nonAppVars>>

\* lines 129-131
StartProcessing ==
    /\ apc = "start"
    /\ Len(uploaded_files) > 0 /\ api_key
    /\ all_text' = <<>>
    /\ all_tables_combined' = <<>>
    /\ apc' = "loop"
    /\ UNCHANGED <<api_key, uploaded_files, fidx, tmp_path, tmp_live, tmp_made,
                   user_prompt, submitVars, page_tables, runs, nonAppVars>>

\* lines 134-136: NamedTemporaryFile(delete=False), written and closed
WriteTemp ==
    /\ apc = "loop"
    /\ fidx < Len(uploaded_files)
    /\ tmp_made' = tmp_made + 1
    /\ tmp_path' = tmp_made + 1
    /\ tmp_live' = tmp_live \cup {tmp_made + 1}
    /\ apc' = "read"
    /\ UNCHANGED <<api_key, uploaded_files, fidx, all_text, all_tables_combined,
                   user_prompt, submitVars, page_tables, runs, nonAppVars>>

\* lines 137-139: extract_text_and_tables returns; its results are appended
ReadOk ==
    /\ apc = "read"
    /\ uploaded_files[fidx + 1].readable
    /\ LET r == extract_text_and_tables(uploaded_files[fidx + 1].pages)
       IN /\ all_text' = all_text \o r.text \o <<NL, NL>>
          /\ all_tables_combined' = all_tables_combined \o r.tables
    /\ fidx' = fidx + 1
    /\ apc' = "loop"
    /\ UNCHANGED <<api_key, uploaded_files, tmp_path, tmp_live, tmp_made,
                   user_prompt, submitVars, page_tables, runs, nonAppVars>>

\* line 137: pdfplumber raises; nothing catches it, the run ends there
ReadFail ==
    /\ apc = "read"
    /\ ~uploaded_files[fidx + 1].readable
    /\ apc' = "aborted"
    /\ UNCHANGED <<uploadVars, submitVars, page_tables, runs, nonAppVars>>

\* lines 142-144: the prompt is built and put in the text area
ShowPrompt ==
    /\ apc = "loop"
    /\ fidx = Len(uploaded_files)
    /\ user_prompt' = Some(create_prompt(all_text))
    /\ apc' = "button"
    /\ UNCHANGED <<api_key, uploaded_files, fidx, tmp_path, tmp_live, tmp_made,
                   all_text, all_tables_combined, submitVars, page_tables, runs,
                   nonAppVars>>

\* line 146: the button was pressed
PressButton ==
    /\ apc = "button"
    /\ pressed' = TRUE
    /\ apc' = "query"
    /\ UNCHANGED <<uploadVars, requests_sent, qresult, final_json, errors, rendered,
                   download, page_tables, runs, nonAppVars>>

\* line 146: the button was not pressed
NoPress ==
    /\ apc = "button"
    /\ apc' = "tables"
    /\ UNCHANGED <<uploadVars, submitVars, page_tables, runs, nonAppVars>>

\* lines 108-111: the request is sent, the answer is ok and holds a text
QueryOk ==
    /\ apc = "query"
    /\ \E text \in AnswerTexts : qresult' = Some(text)
    /\ requests_sent' = requests_sent + 1
    /\ apc' = "result"
    /\ UNCHANGED <<uploadVars, pressed, final_json, errors, rendered, download,
                   page_tables, runs, nonAppVars>>

\* lines 108-113, 117: the answer is ok but lacks the expected fields
QueryBadEnvelope ==
    /\ apc = "query"
    /\ requests_sent' = requests_sent + 1
    /\ errors' = Append(errors, "Parsing Gemini response failed")
    /\ qresult' = None
    /\ apc' = "result"
    /\ UNCHANGED <<uploadVars, pressed, final_json, rendered, download,
                   page_tables, runs, nonAppVars>>

\* lines 108-109, 114-117: the answer is not ok
QueryHttpError ==
    /\ apc = "query"
    /\ requests_sent' = requests_sent + 1
    /\ errors' = Append(errors, "Gemini API Error")
    /\ qresult' = None
    /\ apc' = "result"
    /\ UNCHANGED <<uploadVars, pressed, final_json, rendered, download,
                   page_tables, runs, nonAppVars>>

\* line 149: `if result:` is false for None and for ''
NoResult ==
    /\ apc = "result"
    /\ ~Truthy(qresult)
    /\ apc' = "tables"
    /\ UNCHANGED <<uploadVars, submitVars, page_tables, runs, nonAppVars>>

\* line 150: final_json = parse_json_response(result)
ParseResult ==
    /\ apc = "result"
    /\ Truthy(qresult)
    /\ LET o == ParseOutcome(qresult.v)
       IN /\ final_json' = o.ret
          /\ errors' = errors \o o.errors
    /\ apc' = "parsed"
    /\ UNCHANGED <<uploadVars, pressed, requests_sent, qresult, rendered, download,
                   page_tables, runs, nonAppVars>>

\* lines 151-162: the result is shown and offered for download
RenderResult ==
    /\ apc = "parsed"
    /\ TruthyValue(final_json)
    /\ rendered' = TRUE
    /\ download' = "financial_data.json"
    /\ apc' = "tables"
    /\ UNCHANGED <<uploadVars, pressed, requests_sent, qresult, final_json, errors,
                   page_tables, runs, nonAppVars>>

\* lines 163-164
ReportNoJson ==
    /\ apc = "parsed"
    /\ ~TruthyValue(final_json)
    /\ errors' = Append(errors, "Couldn't convert to JSON.")
    /\ apc' = "tables"
    /\ UNCHANGED <<uploadVars, pressed, requests_sent, qresult, final_json, rendered,
                   download, page_tables, runs, nonAppVars>>

\* lines 167-187: the display loop over all_tables_combined
DisplayTables ==
    /\ apc = "tables"
    /\ page_tables' = Concat([k \in 1..Len(all_tables_combined) |->
                                DisplayOne(k - 1, all_tables_combined[k])])
    /\ apc' = "done"
    /\ UNCHANGED <<uploadVars, submitVars, runs, nonAppVars>>

\* an interaction: the script runs again from the top; the files on disk stay
Rerun ==
    /\ apc \in {"done", "aborted"}
    /\ runs < MaxRuns
    /\ runs' = runs + 1
    /\ fidx' = 0
    /\ tmp_path' = 0
    /\ all_text' = <<>>
    /\ all_tables_combined' = <<>>
    /\ user_prompt' = None
    /\ pressed' = FALSE
    /\ requests_sent' = 0
    /\ qresult' = None
    /\ final_json' = PyNone
    /\ errors' = <<>>
    /\ rendered' = FALSE
    /\ download' = ""
    /\ page_tables' = <<>>
    /\ apc' = "start"
    /\ UNCHANGED <<api_key, uploaded_files, tmp_live, tmp_made, nonAppVars>>

Next ==
    \/ SkipProcessing \/ StartProcessing \/ WriteTemp \/ ReadOk \/ ReadFail
    \/ ShowPrompt \/ PressButton \/ NoPress
    \/ QueryOk \/ QueryBadEnvelope \/ QueryHttpError
    \/ NoResult \/ ParseResult \/ RenderResult \/ ReportNoJson
    \/ DisplayTables \/ Rerun

Init == AppInit /\ ReaderIdle /\ ParserIdle /\ PromptIdle /\ DisplayIdle

Spec == Init /\ [][Next]_vars

----------------------------------------------------------------------------
(* Claims on the page script *)

\* all_text and all_tables_combined built from the uploads that can be read
RECURSIVE ReadableContribution(_)
ReadableContribution(files) ==
    IF Len(files) = 0 THEN [text |-> <<>>, tables |-> <<>>]
    ELSE LET rest == ReadableContribution(Tail(files))
             r == extract_text_and_tables(files[1].pages)
         IN IF files[1].readable
            THEN [text |-> r.text \o <<NL, NL>> \o rest.text,
                  tables |-> r.tables \o rest.tables]
            ELSE rest

\* C7: when several files are uploaded and one of them cannot be read, only
\* that file's contribution is dropped: every other file is still read, in
\* upload order, the prompt is built from the remaining text, and the run does
\* not crash.
C7_ReadFailureContained ==
    ( /\ apc \in {"done", "aborted"}
      /\ api_key
      /\ Len(uploaded_files) >= 2
      /\ \E k \in 1..Len(uploaded_files) : ~uploaded_files[k].readable )
    => /\ apc = "done"
       /\ all_text = ReadableContribution(uploaded_files).text
       /\ all_tables_combined = ReadableContribution(uploaded_files).tables
       /\ user_prompt = Some(create_prompt(all_text))

\* C8: a temporary file exists only while the Document Reader works on its
\* upload: once extract_text_and_tables has returned or failed, the file is
\* gone, so the live temporary files never pile up.
C8_TempReleased ==
    \A t \in tmp_live : apc = "read" /\ t = tmp_path

\* C10: a submission sends at most one request and ends in exactly one of two
\* ways: the decoded mapping is rendered and offered as financial_data.json,
\* or at least one error is reported -- never with neither.
C10_OneOutcome ==
    (pressed /\ apc \in {"tables", "done"}) =>
        LET success == rendered /\ download = "financial_data.json"
            failure == errors # <<>>
        IN /\ requests_sent <= 1
           /\ (success /\ ~failure) \/ (failure /\ ~success)

====
